---- MODULE Spec2Model ----
(***************************************************************************)
(* A model of gory (src/src/lib.rs): ANSI foreground colouring of strings. *)
(*                                                                         *)
(* Text is modelled as a sequence of characters, each character a          *)
(* one-element string; the control byte 0x1B is the character ESC.         *)
(*                                                                         *)
(* Three specifications share the definitions:                             *)
(*   Spec        the Colorable combinators and ColorString's Display::fmt, *)
(*               one write_str at a time, against a sink that may fail;    *)
(*   SpecPolicy  threads calling Color::enabled() (the lazy static         *)
(*               TERM_COLOR) while the environment changes;                *)
(*   SpecFlag    private::flag_default applied to one state of a variable. *)
(***************************************************************************)
EXTENDS Integers, Sequences, FiniteSets, TLC

VARIABLES
    tty,        \* whether stdout is a terminal (what libc::isatty reports)
    env,        \* the state of the environment variable TERM_COLOR
    once,       \* the lazy static's once-guard: "incomplete", "running", "complete"
    cache,      \* the lazy static's value, meaningful once the guard is complete
    initRuns,   \* how many times the lazy static's initializer has started
    ttySeen,    \* <<b>>: what the initializer's hastty() call read; <<>> before
    envSeen,    \* <<e>>: the state of TERM_COLOR the initializer read; <<>> if none
    force,      \* the override asked for through force(value): <<>> none, <<b>>
    tpc,        \* per thread: position in its call of Color::enabled()
    calls,      \* per thread: the number of calls of Color::enabled() it began
    returned,   \* the values the calls of Color::enabled() have returned
    lastRet,    \* <<b>>: what the latest call of Color::enabled() returned
    lastForce,  \* the override that was asked for when that call returned
    recv,       \* the receiver of the next combinator: "str" or "ColorString"
    text,       \* the raw text the styling started from
    cs,         \* the ColorString value (unused while recv = "str")
    prev,       \* the ColorString the last combinator was applied to
    lastOp,     \* the last combinator applied
    nOps,       \* the number of combinators applied so far
    pc,         \* position in Display::fmt
    en,         \* what Color::enabled() returned to this fmt
    out,        \* the characters the sink accepted
    log,        \* the write_str calls made on the sink, in order, with outcome
    ret,        \* the Result fmt returned: "none" (not returned), "Ok", "Err"
    fdefault,   \* flag_default's `default` argument
    fres        \* flag_default's result: <<>> before the call, <<b>> after

vars == <<tty, env, once, cache, initRuns, ttySeen, envSeen, force, tpc, calls, returned,
          lastRet, lastForce,
          recv, text, cs, prev, lastOp, nOps, pc, en, out, log, ret, fdefault, fres>>

policyVars == <<tty, env, once, cache, initRuns, ttySeen, envSeen, force, tpc, calls,
                returned, lastRet, lastForce>>
styleVars == <<recv, text, cs, prev, lastOp, nOps>>
fmtVars == <<pc, en, out, log, ret>>
flagVars == <<fdefault, fres>>

----------------------------------------------------------------------------
(* Bounds *)

\* the longest chain of combinators applied to one text
MaxOps == 2
\* the number of threads calling Color::enabled()
NumThreads == 2
\* the number of calls of Color::enabled() one thread makes
MaxCalls == 2
\* the longest generated value of the environment variable
MaxLen == 2

----------------------------------------------------------------------------
(* Characters and text *)

ESC == "ESC"

UpperCase == <<"A","B","C","D","E","F","G","H","I","J","K","L","M",
               "N","O","P","Q","R","S","T","U","V","W","X","Y","Z">>
LowerCase == <<"a","b","c","d","e","f","g","h","i","j","k","l","m",
               "n","o","p","q","r","s","t","u","v","w","x","y","z">>

\* char::to_lowercase on the characters of the model (ASCII)
to_lowercase_char(ch) ==
    IF \E i \in 1..Len(UpperCase) : UpperCase[i] = ch
    THEN LowerCase[CHOOSE i \in 1..Len(UpperCase) : UpperCase[i] = ch]
    ELSE ch

\* str::to_lowercase
to_lowercase(s) == [i \in 1..Len(s) |-> to_lowercase_char(s[i])]

\* bool::to_string
bool_to_string(b) == IF b THEN <<"t","r","u","e">> ELSE <<"f","a","l","s","e">>

----------------------------------------------------------------------------
(* The environment variable *)

Absent == [kind |-> "absent", val |-> <<>>]
NotUnicode == [kind |-> "notunicode", val |-> <<>>]
Present(v) == [kind |-> "unicode", val |-> v]

\* std::env::var: Ok(value) for a present variable holding valid unicode,
\* Err(NotPresent) or Err(NotUnicode) otherwise
env_var(e) == IF e.kind = "unicode" THEN [ok |-> TRUE, val |-> e.val]
                                    ELSE [ok |-> FALSE, val |-> <<>>]

\* Result::unwrap_or_else(|_| d)
unwrap_or_else(r, d) == IF r.ok THEN r.val ELSE d

flag_default_nolower(e, default) ==
    LET s == unwrap_or_else(env_var(e), bool_to_string(default))
    IN  ~(s \in {<<"f","a","l","s","e">>, <<"0">>})

\* private::flag_default
flag_default(e, default) ==
    LET s == to_lowercase(unwrap_or_else(env_var(e), bool_to_string(default)))
    IN  ~(s \in {<<"f","a","l","s","e">>, <<"0">>})

\* private::hastty: isatty(STDOUT_FILENO) != 0
hastty(t) == t

----------------------------------------------------------------------------
(* Values the inputs are drawn from *)

EnvAlphabet == {"0", "1", "f", "F"}

RECURSIVE StringsUpTo(_)
StringsUpTo(n) ==
    IF n = 0 THEN {<<>>}
    ELSE LET shorter == StringsUpTo(n - 1)
         IN  shorter \cup {Append(s, ch) : s \in shorter, ch \in EnvAlphabet}

NamedValues == {
    <<"f","a","l","s","e">>, <<"F","A","L","S","E">>, <<"F","a","l","s","e">>,
    <<"f","A","l","S","e">>, <<"t","r","u","e">>, <<"T","R","U","E">>,
    <<"n","o">>, <<"o","f","f">>, <<"f","a","l","s","e","0">>,
    <<"f","a","l","s">>, <<" ","0">>, <<"a","n","y","t","h","i","n","g">> }

EnvStates ==
    {Absent, NotUnicode} \cup {Present(v) : v \in StringsUpTo(MaxLen) \cup NamedValues}

Texts == {<<>>, <<"h","i">>, <<"1",";","m">>}

----------------------------------------------------------------------------
(* Color *)

StandardColors == <<"Black","Red","Green","Yellow","Blue","Magenta","Cyan","White">>
BrightColors == <<"BrightBlack","BrightRed","BrightGreen","BrightYellow",
                  "BrightBlue","BrightMagenta","BrightCyan","BrightWhite">>

\* enum Color
Color == {StandardColors[i] : i \in 1..8} \cup {BrightColors[i] : i \in 1..8}

\* Option<Color>::None
None == "None"

Color_fmt_swapped(c) ==
    CASE c = "Black" -> <<"3","0">>
      [] c = "Red" -> <<"3","1">>
      [] c = "Green" -> <<"3","2">>
      [] c = "Yellow" -> <<"3","3">>
      [] c = "Blue" -> <<"3","4">>
      [] c = "Magenta" -> <<"3","5">>
      [] c = "Cyan" -> <<"3","6">>
      [] c = "White" -> <<"3","7">>
      [] c = "BrightBlack" -> <<"9","0">>
      [] c = "BrightRed" -> <<"9","1">>
      [] c = "BrightGreen" -> <<"9","2">>
      [] c = "BrightYellow" -> <<"9","3">>
      [] c = "BrightBlue" -> <<"9","4">>
      [] c = "BrightMagenta" -> <<"9","6">>
      [] c = "BrightCyan" -> <<"9","5">>
      [] c = "BrightWhite" -> <<"9","7">>

\* impl Display for Color: the text written for each colour
Color_fmt(c) ==
    CASE c = "Black" -> <<"3","0">>
      [] c = "Red" -> <<"3","1">>
      [] c = "Green" -> <<"3","2">>
      [] c = "Yellow" -> <<"3","3">>
      [] c = "Blue" -> <<"3","4">>
      [] c = "Magenta" -> <<"3","5">>
      [] c = "Cyan" -> <<"3","6">>
      [] c = "White" -> <<"3","7">>
      [] c = "BrightBlack" -> <<"9","0">>
      [] c = "BrightRed" -> <<"9","1">>
      [] c = "BrightGreen" -> <<"9","2">>
      [] c = "BrightYellow" -> <<"9","3">>
      [] c = "BrightBlue" -> <<"9","4">>
      [] c = "BrightMagenta" -> <<"9","5">>
      [] c = "BrightCyan" -> <<"9","6">>
      [] c = "BrightWhite" -> <<"9","7">>

----------------------------------------------------------------------------
(* ColorString and the Colorable combinators *)

\* struct ColorString
ColorString(val, fg_color, fg_bold) ==
    [val |-> val, fg_color |-> fg_color, fg_bold |-> fg_bold]

\* impl Default for ColorString
ColorString_default == ColorString(<<>>, None, FALSE)

\* ColorString::color: the colour's text, or the empty String
ColorString_color(self) ==
    IF self.fg_color # None THEN Color_fmt(self.fg_color) ELSE <<>>

\* impl Deref for ColorString
ColorString_deref(self) == self.val

ColorString_set_fg_style_sticky(self, color, bold) ==
    [self EXCEPT !.fg_color = color, !.fg_bold = self.fg_bold \/ bold]

\* impl Colorable for ColorString: set_fg_style
ColorString_set_fg_style(self, color, bold) ==
    [self EXCEPT !.fg_color = color, !.fg_bold = bold]

ColorString_clear_keepbold(self) ==
    [self EXCEPT !.fg_color = None]

\* impl Colorable for ColorString: clear
ColorString_clear(self) ==
    [self EXCEPT !.fg_color = None, !.fg_bold = FALSE]

\* impl Colorable for &str: set_fg_style
str_set_fg_style(self, color, bold) == ColorString(self, color, bold)

\* impl Colorable for &str: clear
str_clear(self) == [ColorString_default EXCEPT !.val = self]

\* trait Colorable: the provided methods, each a call of set_fg_style with
\* the colour and the bold flag given here
Colorable_provided(fn) ==
    CASE fn = "black" -> <<"Black", FALSE>>
      [] fn = "bright_black" -> <<"BrightBlack", FALSE>>
      [] fn = "bold_black" -> <<"BrightBlack", TRUE>>
      [] fn = "red" -> <<"Red", FALSE>>
      [] fn = "bright_red" -> <<"BrightRed", FALSE>>
      [] fn = "bold_red" -> <<"Red", TRUE>>
      [] fn = "green" -> <<"Green", FALSE>>
      [] fn = "bright_green" -> <<"BrightGreen", FALSE>>
      [] fn = "bold_green" -> <<"BrightGreen", TRUE>>
      [] fn = "yellow" -> <<"Yellow", FALSE>>
      [] fn = "bright_yellow" -> <<"BrightYellow", FALSE>>
      [] fn = "bold_yellow" -> <<"BrightYellow", TRUE>>
      [] fn = "blue" -> <<"Blue", FALSE>>
      [] fn = "bright_blue" -> <<"BrightBlue", FALSE>>
      [] fn = "bold_blue" -> <<"BrightBlue", TRUE>>
      [] fn = "magenta" -> <<"Magenta", FALSE>>
      [] fn = "bright_magenta" -> <<"BrightMagenta", FALSE>>
      [] fn = "bold_magenta" -> <<"BrightMagenta", TRUE>>
      [] fn = "cyan" -> <<"Cyan", FALSE>>
      [] fn = "bright_cyan" -> <<"BrightCyan", FALSE>>
      [] fn = "bold_cyan" -> <<"BrightCyan", TRUE>>
      [] fn = "white" -> <<"White", FALSE>>
      [] fn = "bright_white" -> <<"BrightWhite", FALSE>>
      [] fn = "bold_white" -> <<"BrightWhite", TRUE>>

LowerNames == <<"black","red","green","yellow","blue","magenta","cyan","white">>

ProvidedFns == {s \o LowerNames[i] : s \in {"", "bright_", "bold_"}, i \in 1..8}

\* a combinator call: a provided method, set_fg_style(color, bold), or clear
Op(fn, color, bold) == [fn |-> fn, color |-> color, bold |-> bold]

Ops == {Op(fn, None, FALSE) : fn \in ProvidedFns \cup {"clear"}}
       \cup {Op("set_fg_style", c, b) : c \in Color, b \in BOOLEAN}

NoOp == Op("none", None, FALSE)

\* the colour and bold flag a combinator call passes to set_fg_style
OpArgs(op) ==
    IF op.fn = "set_fg_style" THEN <<op.color, op.bold>> ELSE Colorable_provided(op.fn)

\* a combinator called on a &str
str_apply(self, op) ==
    IF op.fn = "clear" THEN str_clear(self)
    ELSE str_set_fg_style(self, OpArgs(op)[1], OpArgs(op)[2])

\* a combinator called on a ColorString
ColorString_apply(self, op) ==
    IF op.fn = "clear" THEN ColorString_clear(self)
    ELSE ColorString_set_fg_style(self, OpArgs(op)[1], OpArgs(op)[2])

\* "t".op(): a combinator on the raw text
StrStyle(op) ==
    /\ recv = "str"
    /\ nOps < MaxOps
    /\ pc = "idle"
    /\ cs' = str_apply(text, op)
    /\ recv' = "ColorString"
    /\ prev' = cs
    /\ lastOp' = op
    /\ nOps' = nOps + 1
    /\ UNCHANGED <<text, policyVars, fmtVars, flagVars>>

\* value.op(): a combinator on an already styled value
CsStyle(op) ==
    /\ recv = "ColorString"
    /\ nOps < MaxOps
    /\ pc = "idle"
    /\ cs' = ColorString_apply(cs, op)
    /\ prev' = cs
    /\ lastOp' = op
    /\ nOps' = nOps + 1
    /\ UNCHANGED <<recv, text, policyVars, fmtVars, flagVars>>

----------------------------------------------------------------------------
(* The style policy: the lazy static TERM_COLOR and Color::enabled *)

\* lazy_static! TERM_COLOR: the initializer's expression
TERM_COLOR_init(t, e) == hastty(t) /\ flag_default(e, TRUE)

once_begin_racy(state) == state # "complete"

\* the once-guard of the lazy static: the caller that finds the guard
\* incomplete, and only that caller, runs the initializer
once_begin(state) == state = "incomplete"

Color_enabled_forced(cached, forced) == IF forced # <<>> THEN forced[1] ELSE cached

\* Color::enabled: the value of the lazy static, whatever override was asked for
Color_enabled(cached, forced) == cached

\* Color::enabled() called where no other thread runs: the first use
\* initializes the lazy static, every use reads it
EnabledHere(result) ==
    /\ once \in {"incomplete", "complete"}
    /\ IF once_begin(once)
       THEN /\ cache' = TERM_COLOR_init(tty, env)
            /\ initRuns' = initRuns + 1
            /\ ttySeen' = <<tty>>
            /\ envSeen' = IF hastty(tty) THEN <<env>> ELSE envSeen
       ELSE UNCHANGED <<cache, initRuns, ttySeen, envSeen>>
    /\ once' = "complete"
    /\ result = Color_enabled(cache', force)
    /\ returned' = returned \cup {result}
    /\ lastRet' = <<result>>
    /\ lastForce' = force
    /\ UNCHANGED <<tty, env, force, tpc, calls>>

----------------------------------------------------------------------------
(* impl Display for ColorString *)

RESET == <<ESC, "[", "0", "m">>

fmt_plain_and(enabled, self) == ~enabled /\ self.fg_color = None

\* fmt's first test: fall back on String's Display
fmt_plain(enabled, self) == ~enabled \/ self.fg_color = None

\* Formatter::write_str on the sink: the text is accepted, or the write fails
write_str(name, s, ok) ==
    /\ log' = Append(log, [piece |-> name, ok |-> ok])
    /\ out' = IF ok THEN out \o s ELSE out

try_ignore(ok, next) ==
    /\ pc' = next
    /\ ret' = ret

\* the ? operator on a write's Result: go on, or return the error
try(ok, next) ==
    /\ pc' = IF ok THEN next ELSE "done"
    /\ ret' = IF ok THEN ret ELSE "Err"

\* private::ensure and Ensure::drop: the closure's Result is dropped, and fmt
\* returns Ok(())
ensure(ok) == "Ok"

\* fmt, line 305: the test of Color::enabled() and fg_color
FmtBegin ==
    /\ pc = "idle"
    /\ recv = "ColorString"
    /\ \E e \in BOOLEAN :
         /\ EnabledHere(e)
         /\ en' = e
         /\ pc' = IF fmt_plain(e, cs) THEN "plain" ELSE "prefix"
    /\ UNCHANGED <<styleVars, out, log, ret, flagVars>>

\* fmt, line 306: <String as Display>::fmt(&self.val, f)
FmtPlain ==
    /\ pc = "plain"
    /\ \E ok \in BOOLEAN :
         /\ write_str("plain", cs.val, ok)
         /\ ret' = IF ok THEN "Ok" ELSE "Err"
    /\ pc' = "done"
    /\ UNCHANGED <<policyVars, styleVars, en, flagVars>>

\* fmt, line 310: f.write_str("\x1B[")?
FmtPrefix ==
    /\ pc = "prefix"
    /\ \E ok \in BOOLEAN :
         /\ write_str("prefix", <<ESC, "[">>, ok)
         /\ try(ok, "bold")
    /\ UNCHANGED <<policyVars, styleVars, en, flagVars>>

\* fmt, lines 313-315: if self.fg_bold { f.write_str("1;")? }
FmtBold ==
    /\ pc = "bold"
    /\ IF cs.fg_bold
       THEN \E ok \in BOOLEAN :
              /\ write_str("bold", <<"1", ";">>, ok)
              /\ try(ok, "color")
       ELSE /\ pc' = "color"
            /\ UNCHANGED <<out, log, ret>>
    /\ UNCHANGED <<policyVars, styleVars, en, flagVars>>

\* fmt, line 318: f.write_str(&self.color())?
FmtColor ==
    /\ pc = "color"
    /\ \E ok \in BOOLEAN :
         /\ write_str("color", ColorString_color(cs), ok)
         /\ try(ok, "close")
    /\ UNCHANGED <<policyVars, styleVars, en, flagVars>>

\* fmt, line 321: f.write_str("m")?
FmtClose ==
    /\ pc = "close"
    /\ \E ok \in BOOLEAN :
         /\ write_str("close", <<"m">>, ok)
         /\ try(ok, "payload")
    /\ UNCHANGED <<policyVars, styleVars, en, flagVars>>

\* fmt, line 324: f.write_str(&self.val)?
FmtPayload ==
    /\ pc = "payload"
    /\ \E ok \in BOOLEAN :
         /\ write_str("payload", cs.val, ok)
         /\ try(ok, "reset")
    /\ UNCHANGED <<policyVars, styleVars, en, flagVars>>

\* fmt, lines 327-330: the guard made by private::ensure is a temporary, dropped
\* at the end of its statement: the closure writes the reset there; then Ok(())
FmtReset ==
    /\ pc = "reset"
    /\ \E ok \in BOOLEAN :
         /\ write_str("reset", RESET, ok)
         /\ ret' = ensure(ok)
    /\ pc' = "done"
    /\ UNCHANGED <<policyVars, styleVars, en, flagVars>>

----------------------------------------------------------------------------
(* Threads calling Color::enabled() *)

Threads == 1..NumThreads

PolicyEnvs == {Absent, NotUnicode, Present(<<"F","A","L","S","E">>), Present(<<"1">>)}

\* Option<bool>: <<>> is none, <<b>> is Some(b)
Forces == {<<>>, <<TRUE>>, <<FALSE>>}

\* a thread calls Color::enabled() and dereferences the lazy static
Enter(t) ==
    /\ tpc[t] = "idle"
    /\ calls[t] < MaxCalls
    /\ calls' = [calls EXCEPT ![t] = @ + 1]
    /\ IF once_begin(once)
       THEN /\ once' = "running"
            /\ initRuns' = initRuns + 1
            /\ tpc' = [tpc EXCEPT ![t] = "hastty"]
       ELSE /\ tpc' = [tpc EXCEPT ![t] = IF once = "complete" THEN "read" ELSE "wait"]
            /\ UNCHANGED <<once, initRuns>>
    /\ UNCHANGED <<tty, env, cache, ttySeen, envSeen, force, returned,
                   lastRet, lastForce, styleVars, fmtVars, flagVars>>

\* the initializer evaluates hastty(); && stops at false
InitHasTty(t) ==
    /\ tpc[t] = "hastty"
    /\ ttySeen' = <<tty>>
    /\ IF hastty(tty)
       THEN /\ tpc' = [tpc EXCEPT ![t] = "flag"]
            /\ UNCHANGED <<cache, once>>
       ELSE /\ cache' = FALSE
            /\ once' = "complete"
            /\ tpc' = [tpc EXCEPT ![t] = "read"]
    /\ UNCHANGED <<tty, env, initRuns, envSeen, force, calls, returned,
                   lastRet, lastForce, styleVars, fmtVars, flagVars>>

\* the initializer evaluates flag_default("TERM_COLOR", true) and stores the value
InitFlag(t) ==
    /\ tpc[t] = "flag"
    /\ envSeen' = <<env>>
    /\ cache' = flag_default(env, TRUE)
    /\ once' = "complete"
    /\ tpc' = [tpc EXCEPT ![t] = "read"]
    /\ UNCHANGED <<tty, env, initRuns, ttySeen, force, calls, returned,
                   lastRet, lastForce, styleVars, fmtVars, flagVars>>

\* a thread that found the initializer running waits for it to complete
Wait(t) ==
    /\ tpc[t] = "wait"
    /\ once = "complete"
    /\ tpc' = [tpc EXCEPT ![t] = "read"]
    /\ UNCHANGED <<tty, env, once, cache, initRuns, ttySeen, envSeen, force, calls,
                   returned, lastRet, lastForce, styleVars, fmtVars, flagVars>>

\* Color::enabled() returns the lazy static's value
Read(t) ==
    /\ tpc[t] = "read"
    /\ returned' = returned \cup {Color_enabled(cache, force)}
    /\ lastRet' = <<Color_enabled(cache, force)>>
    /\ lastForce' = force
    /\ tpc' = [tpc EXCEPT ![t] = "idle"]
    /\ UNCHANGED <<tty, env, once, cache, initRuns, ttySeen, envSeen, force, calls,
                   styleVars, fmtVars, flagVars>>

\* the environment: TERM_COLOR is set, changed or removed
SetEnv(e) ==
    /\ env' = e
    /\ e # env
    /\ UNCHANGED <<tty, once, cache, initRuns, ttySeen, envSeen, force, tpc, calls,
                   returned, lastRet, lastForce, styleVars, fmtVars, flagVars>>

\* the environment: stdout is attached to or detached from a terminal
SetTty(b) ==
    /\ tty' = b
    /\ b # tty
    /\ UNCHANGED <<env, once, cache, initRuns, ttySeen, envSeen, force, tpc, calls,
                   returned, lastRet, lastForce, styleVars, fmtVars, flagVars>>

\* the spec's force(value): the caller asks for an override; gory has no
\* function that takes it, so nothing of the program changes
Force(v) ==
    /\ force' = v
    /\ v # force
    /\ UNCHANGED <<tty, env, once, cache, initRuns, ttySeen, envSeen, tpc, calls,
                   returned, lastRet, lastForce, styleVars, fmtVars, flagVars>>

----------------------------------------------------------------------------
(* private::flag_default called on its own *)

FlagCall ==
    /\ fres = <<>>
    /\ fres' = <<flag_default(env, fdefault)>>
    /\ UNCHANGED <<policyVars, styleVars, fmtVars, fdefault>>

----------------------------------------------------------------------------
(* Specifications *)

InitPolicyAt(ttys, envs) ==
    /\ tty \in ttys
    /\ env \in envs
    /\ once = "incomplete"
    /\ cache = FALSE
    /\ initRuns = 0
    /\ ttySeen = <<>>
    /\ envSeen = <<>>
    /\ force = <<>>
    /\ tpc = [t \in Threads |-> "idle"]
    /\ calls = [t \in Threads |-> 0]
    /\ returned = {}
    /\ lastRet = <<>>
    /\ lastForce = <<>>

InitStyleAt(texts) ==
    /\ recv = "str"
    /\ text \in texts
    /\ cs = ColorString_default
    /\ prev = ColorString_default
    /\ lastOp = NoOp
    /\ nOps = 0

InitFmt ==
    /\ pc = "idle"
    /\ en = FALSE
    /\ out = <<>>
    /\ log = <<>>
    /\ ret = "none"

InitFlagAt(defaults) ==
    /\ fdefault \in defaults
    /\ fres = <<>>

\* a text is styled by a chain of combinators and then rendered once
Init ==
    /\ InitPolicyAt(BOOLEAN, {Absent, Present(<<"0">>)})
    /\ InitStyleAt(Texts)
    /\ InitFmt
    /\ InitFlagAt({TRUE})

Next ==
    \/ \E op \in Ops : StrStyle(op)
    \/ \E op \in Ops : CsStyle(op)
    \/ FmtBegin
    \/ FmtPlain
    \/ FmtPrefix
    \/ FmtBold
    \/ FmtColor
    \/ FmtClose
    \/ FmtPayload
    \/ FmtReset

Spec == Init /\ [][Next]_vars

\* threads call Color::enabled() while the environment changes
InitPolicy ==
    /\ InitPolicyAt(BOOLEAN, PolicyEnvs)
    /\ InitStyleAt({<<>>})
    /\ InitFmt
    /\ InitFlagAt({TRUE})

NextPolicy ==
    \/ \E t \in Threads : Enter(t)
    \/ \E t \in Threads : InitHasTty(t)
    \/ \E t \in Threads : InitFlag(t)
    \/ \E t \in Threads : Wait(t)
    \/ \E t \in Threads : Read(t)
    \/ \E e \in PolicyEnvs : SetEnv(e)
    \/ \E b \in BOOLEAN : SetTty(b)
    \/ \E v \in Forces : Force(v)

SpecPolicy == InitPolicy /\ [][NextPolicy]_vars

\* flag_default on every state of the variable and both defaults
InitFlag0 ==
    /\ InitPolicyAt({TRUE}, EnvStates)
    /\ InitStyleAt({<<>>})
    /\ InitFmt
    /\ InitFlagAt(BOOLEAN)

NextFlag == FlagCall

SpecFlag == InitFlag0 /\ [][NextFlag]_vars

----------------------------------------------------------------------------
(* Properties *)

AllOk(l) == \A i \in DOMAIN l : l[i].ok

Pieces(l) == [i \in DOMAIN l |-> l[i].piece]

Digits == <<"0","1","2","3","4","5","6","7","8","9">>

\* the two decimal digits of n, 10 <= n <= 99
Decimal2(n) == <<Digits[(n \div 10) + 1], Digits[(n % 10) + 1]>>

\* the SGR parameter of a colour: 30-37 standard, 90-97 bright, in the
\* order black, red, green, yellow, blue, magenta, cyan, white
SgrParameter(c) ==
    IF \E i \in 1..8 : StandardColors[i] = c
    THEN Decimal2(29 + CHOOSE i \in 1..8 : StandardColors[i] = c)
    ELSE Decimal2(89 + CHOOSE i \in 1..8 : BrightColors[i] = c)

Styled == en /\ cs.fg_color # None

\* C1: an enabled, coloured render to a sink whose writes all succeed emits
\* ESC[ , then 1; iff bold, then the colour's parameter (30-37, 90-97), then m,
\* then the payload unchanged, then ESC[0m, in this order and nothing else.
C1_StyledOutput ==
    (pc = "done" /\ Styled /\ AllOk(log)) =>
        /\ out = <<ESC, "[">> \o (IF cs.fg_bold THEN <<"1", ";">> ELSE <<>>)
                   \o SgrParameter(cs.fg_color) \o <<"m">> \o text \o <<ESC, "[", "0", "m">>
        /\ Pieces(log) = <<"prefix">> \o (IF cs.fg_bold THEN <<"bold">> ELSE <<>>)
                           \o <<"color", "close", "payload", "reset">>

C1_Witness ==
    /\ pc = "done" /\ Styled /\ AllOk(log)
    /\ cs.fg_bold /\ cs.fg_color = "BrightCyan"
    /\ text = <<"1", ";", "m">>
    /\ Len(out) = 14

ResetWrites == Cardinality({i \in DOMAIN log : log[i].piece = "reset"})

\* C2: a render that started styled emission writes the reset ESC[0m exactly
\* once on every exit path, also when the prefix, 1;, the colour parameter, m or
\* the payload fails to be written.
C2_ResetOnEveryExit ==
    (pc = "done" /\ Styled) => ResetWrites = 1

BeforeReset == {"plain", "prefix", "bold", "color", "close", "payload"}

FailedBeforeReset == {i \in DOMAIN log : ~log[i].ok /\ log[i].piece \in BeforeReset}

\* C3: a write failing before the reset makes fmt return the failure, with no
\* further prefix or payload piece written after it; a failing reset write is
\* never returned: with no other failure fmt returns Ok.
C3_FirstFailureReturned ==
    pc = "done" =>
        /\ FailedBeforeReset # {} =>
             /\ ret = "Err"
             /\ \A i \in FailedBeforeReset :
                  \A j \in (i + 1)..Len(log) : log[j].piece \notin BeforeReset
        /\ FailedBeforeReset = {} => ret = "Ok"

C3_Witness ==
    /\ pc = "done" /\ ret = "Err" /\ Styled /\ cs.fg_bold
    /\ Len(log) = 4
    /\ log[4] = [piece |-> "close", ok |-> FALSE]
    /\ out = <<ESC, "[", "1", ";", "9", "1">>

\* C4: with no colour, or with styling disabled, the render writes exactly the
\* payload and nothing else, whatever the bold flag and the colour.
C4_PlainOutput ==
    (pc = "done" /\ ~Styled) =>
        /\ Pieces(log) = <<"plain">>
        /\ out = IF AllOk(log) THEN text ELSE <<>>

C4_Witness ==
    /\ pc = "done" /\ ~en
    /\ cs.fg_color = "Red" /\ cs.fg_bold
    /\ text = <<"h", "i">> /\ out = text

EqIgnoreCase(a, b) ==
    /\ Len(a) = Len(b)
    /\ \A i \in 1..Len(a) :
         \/ a[i] = b[i]
         \/ \E k \in 1..Len(UpperCase) :
              {a[i], b[i]} = {UpperCase[k], LowerCase[k]}

Falsy(v) == EqIgnoreCase(v, <<"0">>) \/ EqIgnoreCase(v, <<"f","a","l","s","e">>)

\* C6: flag_default returns `default` for an absent variable, false for a
\* present value equal to "0" or, ignoring case, to "false", and true for every
\* other present value, also one that cannot be read as text.
C6_FlagParsing ==
    fres # <<>> =>
        fres[1] = CASE env.kind = "absent" -> fdefault
                    [] env.kind = "notunicode" -> TRUE
                    [] env.kind = "unicode" -> ~Falsy(env.val)

\* C6, amended: a present value that cannot be read as text yields `default`,
\* as an absent variable does.
C6_FlagParsingAmended ==
    fres # <<>> =>
        fres[1] = CASE env.kind = "absent" -> fdefault
                    [] env.kind = "notunicode" -> fdefault
                    [] env.kind = "unicode" -> ~Falsy(env.val)

C6_Witness ==
    /\ fres = <<FALSE>> /\ fdefault
    /\ env = Present(<<"f","A","l","S","e">>)

\* C7: after a non-empty chain of combinators on a text t, the value is the
\* one the last combinator alone makes of t: its colour, its bold flag, and t.
C7_LastWriteWins ==
    nOps >= 1 =>
        /\ cs = str_apply(text, lastOp)
        /\ cs.val = text
        /\ lastOp.fn = "set_fg_style" =>
             (cs.fg_color = lastOp.color /\ cs.fg_bold = lastOp.bold)

C7_Witness ==
    /\ nOps = 2
    /\ prev.fg_color = "Black" /\ prev.fg_bold
    /\ lastOp.fn = "red"
    /\ cs = ColorString(<<"h", "i">>, "Red", FALSE)

\* C8: clear on a raw text t or on any styled value with payload t gives colour
\* none, bold false and payload t; the value renders as exactly t, enabled or
\* not, and clear on it changes nothing.
C8_Clear ==
    (nOps >= 1 /\ lastOp.fn = "clear") =>
        /\ cs = ColorString(text, None, FALSE)
        /\ ColorString_clear(cs) = cs
        /\ (pc = "done" /\ AllOk(log)) => out = text

C8_Witness ==
    /\ nOps = 2 /\ lastOp.fn = "clear"
    /\ prev.fg_color = "Red" /\ prev.fg_bold
    /\ pc = "done" /\ en /\ AllOk(log)
    /\ text = <<"h", "i">> /\ out = text

\* the rule of the example's labels: X() is (regular X, not bold), bright_X()
\* is (bright X, not bold), bold_X() is (regular X, bold)
RuleOf(fn) ==
    LET i == CHOOSE k \in 1..8 : fn \in {s \o LowerNames[k] : s \in {"", "bright_", "bold_"}}
    IN  IF fn = LowerNames[i] THEN <<StandardColors[i], FALSE>>
        ELSE IF fn = "bright_" \o LowerNames[i] THEN <<BrightColors[i], FALSE>>
        ELSE <<StandardColors[i], TRUE>>

\* C9: for each of the eight colours X, bold_X() yields bold with the regular
\* colour X, X() the regular colour not bold, bright_X() the bright colour not
\* bold.
C9_BoldIsBoldRegular ==
    (nOps >= 1 /\ lastOp.fn \in ProvidedFns) =>
        <<cs.fg_color, cs.fg_bold>> = RuleOf(lastOp.fn)

\* C10: the lazy static is initialized at most once under every interleaving;
\* its value is tty AND flag(TERM_COLOR, default true) as the initializer read
\* them, and every call of Color::enabled() returns that value, whatever the
\* terminal and TERM_COLOR have become.
C10_ComputedOnce ==
    /\ initRuns <= 1
    /\ Cardinality(returned) <= 1
    /\ once = "complete" =>
         /\ ttySeen # <<>>
         /\ cache = (ttySeen[1] /\ envSeen # <<>>
                     /\ (envSeen[1].kind = "unicode" => ~Falsy(envSeen[1].val)))
         /\ returned \subseteq {cache}
    /\ once # "complete" => returned = {}

C10_Witness ==
    /\ once = "complete" /\ cache
    /\ ~tty /\ env = Present(<<"F","A","L","S","E">>)
    /\ returned = {TRUE}
    /\ \A t \in Threads : calls[t] = MaxCalls /\ tpc[t] = "idle"

====
